---- MODULE Spec2Model ----
(***************************************************************************)
(* Lean consensus: the State transition functions                          *)
(* (lean_spec/subspecs/containers/state/state.py) and the fork-choice      *)
(* Store (lean_spec/subspecs/forkchoice/store.py).                         *)
(*                                                                         *)
(* 32-byte roots are symbolic digests.  The digest of a header, a block or *)
(* a body is the tagged content itself, so that two different contents     *)
(* never share a root.  A block and its header share one root, as under    *)
(* SSZ merkleization.  The digest of a State is the tagged content too,    *)
(* except for the states listed in `fix`: fix[k] is a state that contains  *)
(* the digest <<"fix", k>> and whose root is that very digest (a block     *)
(* whose state_root names the state that holds the block's own header).    *)
(***************************************************************************)
EXTENDS Integers, Sequences, FiniteSets, TLC

VARIABLES time, head, safe_target, latest_justified, latest_finalized,
          blocks, states, latest_known_votes, latest_new_votes,
          fix, st_state

vars == <<time, head, safe_target, latest_justified, latest_finalized,
          blocks, states, latest_known_votes, latest_new_votes,
          fix, st_state>>

store_vars == <<time, head, safe_target, latest_justified, latest_finalized,
                blocks, states, latest_known_votes, latest_new_votes>>

(* ------------------------------ bounds --------------------------------- *)

NumValidators == 2
MaxSlot == 3
MaxTime == 4
MaxProduced == 1
MaxAtts == 1

(* ----------------------- program constants ----------------------------- *)

INTERVALS_PER_SLOT == 4
SECONDS_PER_SLOT == 4
SECONDS_PER_INTERVAL == SECONDS_PER_SLOT \div INTERVALS_PER_SLOT
GenesisTime == 2

(* ------------------------------ roots ---------------------------------- *)

Zero == <<"zero">>

FixRoot(k) == <<"fix", k>>

Checkpoint(root, slot) == [root |-> root, slot |-> slot]

hash_body(body) == <<"body", body>>

hash_header(h) == <<"header", h>>

BlockHeaderOf(block) ==
    [slot |-> block.slot, proposer_index |-> block.proposer_index,
     parent_root |-> block.parent_root, state_root |-> block.state_root,
     body_root |-> hash_body(block.body)]

hash_block(block) == hash_header(BlockHeaderOf(block))

hash_state(S, fx) ==
    IF \E k \in DOMAIN fx : fx[k] = S
    THEN FixRoot(CHOOSE k \in DOMAIN fx : fx[k] = S)
    ELSE <<"state", S>>

(* ---------------------------- containers ------------------------------- *)

DefaultProposerAttestation ==
    [target |-> Checkpoint(Zero, 0), source |-> Checkpoint(Zero, 0)]

BlockBody(atts, proposer_att) ==
    [attestations |-> atts, proposer_attestation |-> proposer_att]

Block(slot, proposer, parent_root, state_root, body) ==
    [slot |-> slot, proposer_index |-> proposer, parent_root |-> parent_root,
     state_root |-> state_root, body |-> body]

AttestationData(slot, hd, target, source) ==
    [slot |-> slot, head |-> hd, target |-> target, source |-> source]

ValidatorAttestation(v, data) == [validator_id |-> v, data |-> data]

\* is_proposer holding of every validator.
is_proposer_anyone(validator_index, slot, num_validators) ==
    validator_index \in 0..(num_validators - 1)

is_proposer(validator_index, slot, num_validators) ==
    slot % num_validators = validator_index

generate_genesis(genesis_time, num_validators) ==
    [config |-> [num_validators |-> num_validators, genesis_time |-> genesis_time],
     slot |-> 0,
     latest_block_header |->
        [slot |-> 0, proposer_index |-> 0, parent_root |-> Zero,
         state_root |-> Zero,
         body_root |-> hash_body(BlockBody(<<>>, DefaultProposerAttestation))],
     latest_justified |-> Checkpoint(Zero, 0),
     latest_finalized |-> Checkpoint(Zero, 0),
     historical_block_hashes |-> <<>>,
     justified_slots |-> <<>>]

(* ------------------------ State transition ----------------------------- *)

Ok(S) == [ok |-> TRUE, state |-> S, err |-> "none"]
Err(e) == [ok |-> FALSE, err |-> e]

Falses(n) == [i \in 1..n |-> FALSE]

process_slot(S) ==
    LET latest_block_root == hash_header(S.latest_block_header)
        new_historical_hashes == Append(S.historical_block_hashes, latest_block_root)
        appended == Append(S.justified_slots, S.latest_block_header.slot = 0)
        new_justified_slots ==
            IF S.slot > S.latest_block_header.slot
            THEN appended \o Falses(S.slot - S.latest_block_header.slot - 1)
            ELSE appended
    IN [S EXCEPT !.slot = S.slot + 1,
                 !.historical_block_hashes = new_historical_hashes,
                 !.justified_slots = new_justified_slots]

RECURSIVE process_slots_loop(_, _)
process_slots_loop(S, target_slot) ==
    IF S.slot < target_slot
    THEN process_slots_loop(process_slot(S), target_slot)
    ELSE S

\* process_slots accepting the state's own slot as target.
process_slots_allow_equal(S, target_slot) ==
    IF target_slot < S.slot
    THEN Err("Target slot must be greater than current slot")
    ELSE Ok(process_slots_loop(S, target_slot))

process_slots(S, target_slot) ==
    IF target_slot <= S.slot
    THEN Err("Target slot must be greater than current slot")
    ELSE Ok(process_slots_loop(S, target_slot))

\* process_block_header comparing the parent root before the proposer.
process_block_header_parent_first(S, block) ==
    IF block.slot # S.slot THEN Err("Block slot mismatch")
    ELSE IF block.parent_root # hash_header(S.latest_block_header)
    THEN Err("Block parent root mismatch")
    ELSE IF ~is_proposer(block.proposer_index, S.slot, S.config.num_validators)
    THEN Err("Incorrect block proposer")
    ELSE Ok([S EXCEPT !.latest_block_header = BlockHeaderOf(block)])

process_block_header(S, block) ==
    IF block.slot # S.slot THEN Err("Block slot mismatch")
    ELSE IF ~is_proposer(block.proposer_index, S.slot, S.config.num_validators)
    THEN Err("Incorrect block proposer")
    ELSE IF block.parent_root # hash_header(S.latest_block_header)
    THEN Err("Block parent root mismatch")
    ELSE Ok([S EXCEPT !.latest_block_header = BlockHeaderOf(block)])

SetBit(js, slot) ==
    LET padded == IF Len(js) <= slot THEN js \o Falses(slot + 1 - Len(js)) ELSE js
    IN [padded EXCEPT ![slot + 1] = TRUE]

\* The loop body justifying the target whether or not the source is justified.
process_vote_any_source(acc, vote) ==
    LET source == vote.data.source
        target == vote.data.target
        js == acc.justified_slots
    IN IF source.slot >= target.slot THEN acc
       ELSE IF ~(source.slot < Len(js)) THEN acc
       ELSE IF target.slot < Len(js) /\ js[target.slot + 1]
       THEN IF source.slot + 1 = target.slot
               /\ acc.latest_justified.slot < target.slot
            THEN [acc EXCEPT !.latest_finalized = source,
                             !.latest_justified = target]
            ELSE acc
       ELSE [acc EXCEPT
               !.justified_slots = SetBit(js, target.slot),
               !.latest_justified =
                   IF target.slot > acc.latest_justified.slot
                   THEN target ELSE acc.latest_justified]

\* One iteration of the loop of process_attestations over the accumulator
\* acc = [justified_slots, latest_justified, latest_finalized].
process_vote(acc, vote) ==
    LET source == vote.data.source
        target == vote.data.target
        js == acc.justified_slots
    IN IF source.slot >= target.slot THEN acc
       ELSE IF ~(source.slot < Len(js)) THEN acc
       ELSE LET source_is_justified == js[source.slot + 1]
            IN IF source_is_justified /\ target.slot < Len(js) /\ js[target.slot + 1]
               THEN IF source.slot + 1 = target.slot
                       /\ acc.latest_justified.slot < target.slot
                    THEN [acc EXCEPT !.latest_finalized = source,
                                     !.latest_justified = target]
                    ELSE acc
               ELSE IF source_is_justified
                    THEN [acc EXCEPT
                            !.justified_slots = SetBit(js, target.slot),
                            !.latest_justified =
                                IF target.slot > acc.latest_justified.slot
                                THEN target ELSE acc.latest_justified]
                    ELSE acc

RECURSIVE process_votes(_, _)
process_votes(acc, atts) ==
    IF atts = <<>> THEN acc
    ELSE process_votes(process_vote(acc, Head(atts)), Tail(atts))

process_attestations(S, atts) ==
    LET acc == process_votes([justified_slots |-> S.justified_slots,
                              latest_justified |-> S.latest_justified,
                              latest_finalized |-> S.latest_finalized], atts)
    IN [S EXCEPT !.justified_slots = acc.justified_slots,
                 !.latest_justified = acc.latest_justified,
                 !.latest_finalized = acc.latest_finalized]

state_process_block(S, block) ==
    LET r == process_block_header(S, block)
    IN IF ~r.ok THEN r
       ELSE Ok(process_attestations(r.state, block.body.attestations))

\* state_transition looking at valid_signatures only after the block has
\* been processed.
state_transition_signatures_last(S, block, valid_signatures, fx) ==
    LET r1 == process_slots(S, block.slot)
    IN IF ~r1.ok THEN r1
       ELSE LET r2 == state_process_block(r1.state, block)
            IN IF ~r2.ok THEN r2
               ELSE IF block.state_root # hash_state(r2.state, fx)
               THEN Err("Invalid block state root")
               ELSE IF ~valid_signatures THEN Err("Block signatures must be valid")
               ELSE r2

state_transition(S, block, valid_signatures, fx) ==
    IF ~valid_signatures THEN Err("Block signatures must be valid")
    ELSE LET r1 == process_slots(S, block.slot)
         IN IF ~r1.ok THEN r1
            ELSE LET r2 == state_process_block(r1.state, block)
                 IN IF ~r2.ok THEN r2
                    ELSE IF block.state_root # hash_state(r2.state, fx)
                    THEN Err("Invalid block state root")
                    ELSE r2

(* ------------------- block construction (test tooling) ------------------ *)

\* BlockBuilder.build: dry-run the block with a zero state root, then set
\* state_root to the root of the state that dry run produced.
BlockBuilder_build(S, slot, atts, fx) ==
    LET proposer_index == slot % S.config.num_validators
        r1 == process_slots(S, slot)
    IN IF ~r1.ok THEN r1
       ELSE LET parent_root == hash_header(r1.state.latest_block_header)
                body == BlockBody(atts, DefaultProposerAttestation)
                temp_block == Block(slot, proposer_index, parent_root, Zero, body)
                r2 == state_process_block(r1.state, temp_block)
            IN IF ~r2.ok THEN r2
               ELSE [ok |-> TRUE, err |-> "none",
                     block |-> Block(slot, proposer_index, parent_root,
                                     hash_state(r2.state, fx), body)]

(* ------------------- inputs of the transition functions ---------------- *)

Validators == 0..(NumValidators - 1)

\* Votes a block body may carry when only the State is concerned: the State
\* reads nothing of a vote but the slots of its source and target.
SlotVotes ==
    UNION { { ValidatorAttestation(0,
                AttestationData(t, Checkpoint(Zero, t), Checkpoint(Zero, t),
                                Checkpoint(Zero, s))) : t \in s..(MaxSlot + 1) } :
            s \in 0..MaxSlot }

SeqsUpTo(S, n) == UNION { [1..k -> S] : k \in 0..n }

\* The state a block leads to from S when its header is accepted.
PostState(S, block) ==
    LET r1 == process_slots(S, block.slot)
    IN IF ~r1.ok THEN r1 ELSE state_process_block(r1.state, block)

\* The digest table after the root of the state that `block` leads to from S
\* turns out to be the not yet used digest the block carries as state_root.
Resolve(fx, S, block) ==
    LET r == PostState(S, block)
    IN IF r.ok /\ block.state_root[1] = "fix" /\ block.state_root[2] \notin DOMAIN fx
       THEN [k \in DOMAIN fx \cup {block.state_root[2]} |->
                IF k \in DOMAIN fx THEN fx[k] ELSE r.state]
       ELSE fx

(* --------------------------- fork-choice helpers ----------------------- *)

\* a is root r itself or is met when parent_root links are followed from r.
RECURSIVE IsAncestorOrSelf(_, _, _)
IsAncestorOrSelf(blks, a, r) ==
    IF r = a THEN TRUE
    ELSE IF r \notin DOMAIN blks THEN FALSE
    ELSE IsAncestorOrSelf(blks, a, blks[r].parent_root)

Children(blks, n) == { c \in DOMAIN blks : blks[c].parent_root = n }

Weight(blks, votes, c) ==
    Cardinality({ v \in DOMAIN votes :
                    /\ votes[v].data.target.root \in DOMAIN blks
                    /\ IsAncestorOrSelf(blks, c, votes[v].data.target.root) })

\* The byte order of digests: a digest handed out later is larger; digests of
\* equal rank are ordered in one fixed way.
RootKey(r) ==
    IF r = Zero THEN 0
    ELSE IF r[1] = "header" /\ r[2].state_root # Zero /\ r[2].state_root[1] = "fix"
         THEN r[2].state_root[2]
         ELSE 0

\* The tie-break taking the smallest digest instead of the largest.
LexMin(S) ==
    LET low == { r \in S : \A q \in S : RootKey(r) <= RootKey(q) }
    IN CHOOSE r \in low : TRUE

LexMax(S) ==
    LET top == { r \in S : \A q \in S : RootKey(q) <= RootKey(r) }
    IN CHOOSE r \in top : TRUE

RECURSIVE get_fork_choice_head(_, _, _, _)
get_fork_choice_head(blks, root, votes, min_score) ==
    LET eligible == { c \in Children(blks, root) : Weight(blks, votes, c) >= min_score }
        heaviest == { c \in eligible :
                        \A d \in eligible : Weight(blks, votes, d) <= Weight(blks, votes, c) }
    IN IF eligible = {} THEN root
       ELSE get_fork_choice_head(blks, LexMax(heaviest), votes, min_score)

get_latest_justified(sts) ==
    LET cps == { sts[r].latest_justified : r \in DOMAIN sts }
        top == { c \in cps : \A d \in cps : d.slot <= c.slot }
    IN CHOOSE c \in top : TRUE

(* ------------------------------- Store --------------------------------- *)

NoVotes == [v \in {} |-> 0]

Put(f, k, x) == [y \in DOMAIN f \cup {k} |-> IF y = k THEN x ELSE f[y]]

Drop(f, k) == [y \in DOMAIN f \ {k} |-> f[y]]

\* get_forkchoice_store without the check of the anchor block's state root.
get_forkchoice_store_unchecked(state, anchor_block, fx) ==
    LET anchor_root == hash_block(anchor_block)
    IN [ok |-> TRUE, err |-> "none",
        store |-> [time |-> anchor_block.slot * INTERVALS_PER_SLOT,
                   config |-> state.config,
                   head |-> anchor_root,
                   safe_target |-> anchor_root,
                   latest_justified |-> state.latest_justified,
                   latest_finalized |-> state.latest_finalized,
                   blocks |-> Put(NoVotes, anchor_root, anchor_block),
                   states |-> Put(NoVotes, anchor_root, state),
                   latest_known_votes |-> NoVotes,
                   latest_new_votes |-> NoVotes]]

get_forkchoice_store(state, anchor_block, fx) ==
    IF anchor_block.state_root # hash_state(state, fx)
    THEN [ok |-> FALSE, err |-> "Anchor block state root must match anchor state hash"]
    ELSE LET anchor_root == hash_block(anchor_block)
         IN [ok |-> TRUE, err |-> "none",
             store |-> [time |-> anchor_block.slot * INTERVALS_PER_SLOT,
                        config |-> state.config,
                        head |-> anchor_root,
                        safe_target |-> anchor_root,
                        latest_justified |-> state.latest_justified,
                        latest_finalized |-> state.latest_finalized,
                        blocks |-> Put(NoVotes, anchor_root, anchor_block),
                        states |-> Put(NoVotes, anchor_root, state),
                        latest_known_votes |-> NoVotes,
                        latest_new_votes |-> NoVotes]]

\* validate_attestation without the comparison of each checkpoint's slot with
\* the slot of its block.
validate_attestation_any_slot(s, att) ==
    LET data == att.data
    IN IF data.source.root \notin DOMAIN s.blocks THEN "Unknown source block"
       ELSE IF data.target.root \notin DOMAIN s.blocks THEN "Unknown target block"
       ELSE LET source_block == s.blocks[data.source.root]
                target_block == s.blocks[data.target.root]
                current_slot == s.time \div SECONDS_PER_INTERVAL
            IN IF ~(source_block.slot <= target_block.slot)
               THEN "Source slot must not exceed target"
               ELSE IF ~(data.source.slot <= data.target.slot)
               THEN "Source checkpoint slot must not exceed target"
               ELSE IF ~(data.slot <= current_slot + 1)
               THEN "Attestation too far in future"
               ELSE "none"

\* "none" when the attestation passes, otherwise the message of the assertion
\* that fails.
validate_attestation(s, att) ==
    LET data == att.data
    IN IF data.source.root \notin DOMAIN s.blocks THEN "Unknown source block"
       ELSE IF data.target.root \notin DOMAIN s.blocks THEN "Unknown target block"
       ELSE LET source_block == s.blocks[data.source.root]
                target_block == s.blocks[data.target.root]
                current_slot == s.time \div SECONDS_PER_INTERVAL
            IN IF ~(source_block.slot <= target_block.slot)
               THEN "Source slot must not exceed target"
               ELSE IF ~(data.source.slot <= data.target.slot)
               THEN "Source checkpoint slot must not exceed target"
               ELSE IF source_block.slot # data.source.slot
               THEN "Source checkpoint slot mismatch"
               ELSE IF target_block.slot # data.target.slot
               THEN "Target checkpoint slot mismatch"
               ELSE IF ~(data.slot <= current_slot + 1)
               THEN "Attestation too far in future"
               ELSE "none"

\* The on-chain branch keeping a pending vote of the same slot.
on_chain_vote_keeps_pending(s, att) ==
    LET validator_id == att.validator_id
        attestation_slot == att.data.slot
        known ==
            IF validator_id \notin DOMAIN s.latest_known_votes
               \/ s.latest_known_votes[validator_id].data.slot < attestation_slot
            THEN Put(s.latest_known_votes, validator_id, att)
            ELSE s.latest_known_votes
        new ==
            IF validator_id \in DOMAIN s.latest_new_votes
               /\ s.latest_new_votes[validator_id].data.slot < attestation_slot
            THEN Drop(s.latest_new_votes, validator_id)
            ELSE s.latest_new_votes
    IN [store |-> [s EXCEPT !.latest_known_votes = known, !.latest_new_votes = new],
        err |-> "none"]

\* The on-chain branch dropping the validator's pending vote whatever its slot.
on_chain_vote_drops_any(s, att) ==
    LET validator_id == att.validator_id
        attestation_slot == att.data.slot
        known ==
            IF validator_id \notin DOMAIN s.latest_known_votes
               \/ s.latest_known_votes[validator_id].data.slot < attestation_slot
            THEN Put(s.latest_known_votes, validator_id, att)
            ELSE s.latest_known_votes
        new ==
            IF validator_id \in DOMAIN s.latest_new_votes
            THEN Drop(s.latest_new_votes, validator_id)
            ELSE s.latest_new_votes
    IN [store |-> [s EXCEPT !.latest_known_votes = known, !.latest_new_votes = new],
        err |-> "none"]

\* The on-chain branch of process_attestation (is_from_block).
on_chain_vote(s, att) ==
    LET validator_id == att.validator_id
        attestation_slot == att.data.slot
        known ==
            IF validator_id \notin DOMAIN s.latest_known_votes
               \/ s.latest_known_votes[validator_id].data.slot < attestation_slot
            THEN Put(s.latest_known_votes, validator_id, att)
            ELSE s.latest_known_votes
        new ==
            IF validator_id \in DOMAIN s.latest_new_votes
               /\ s.latest_new_votes[validator_id].data.slot <= attestation_slot
            THEN Drop(s.latest_new_votes, validator_id)
            ELSE s.latest_new_votes
    IN [store |-> [s EXCEPT !.latest_known_votes = known, !.latest_new_votes = new],
        err |-> "none"]

\* The gossip branch counting the vote at once.
gossip_vote_counted(s, att) ==
    LET validator_id == att.validator_id
        attestation_slot == att.data.slot
        time_slots == s.time \div SECONDS_PER_INTERVAL
    IN IF ~(attestation_slot <= time_slots)
       THEN [store |-> s, err |-> "Attestation from future slot"]
       ELSE IF validator_id \notin DOMAIN s.latest_new_votes
               \/ s.latest_new_votes[validator_id].data.slot < attestation_slot
       THEN [store |-> [s EXCEPT !.latest_known_votes =
                            Put(s.latest_known_votes, validator_id, att)],
             err |-> "none"]
       ELSE [store |-> s, err |-> "none"]

\* The gossip branch recording the vote before it checks the vote's slot.
gossip_vote_store_first(s, att) ==
    LET validator_id == att.validator_id
        attestation_slot == att.data.slot
        time_slots == s.time \div SECONDS_PER_INTERVAL
        stored == [s EXCEPT !.latest_new_votes =
                       Put(s.latest_new_votes, validator_id, att)]
    IN IF validator_id \notin DOMAIN s.latest_new_votes
          \/ s.latest_new_votes[validator_id].data.slot < attestation_slot
       THEN [store |-> stored,
             err |-> IF attestation_slot <= time_slots THEN "none"
                     ELSE "Attestation from future slot"]
       ELSE [store |-> s,
             err |-> IF attestation_slot <= time_slots THEN "none"
                     ELSE "Attestation from future slot"]

\* The gossip branch letting a vote of the pending vote's slot replace it.
gossip_vote_last_arrival(s, att) ==
    LET validator_id == att.validator_id
        attestation_slot == att.data.slot
        time_slots == s.time \div SECONDS_PER_INTERVAL
    IN IF ~(attestation_slot <= time_slots)
       THEN [store |-> s, err |-> "Attestation from future slot"]
       ELSE IF validator_id \notin DOMAIN s.latest_new_votes
               \/ s.latest_new_votes[validator_id].data.slot <= attestation_slot
       THEN [store |-> [s EXCEPT !.latest_new_votes =
                            Put(s.latest_new_votes, validator_id, att)],
             err |-> "none"]
       ELSE [store |-> s, err |-> "none"]

\* The gossip branch of process_attestation.
gossip_vote(s, att) ==
    LET validator_id == att.validator_id
        attestation_slot == att.data.slot
        time_slots == s.time \div SECONDS_PER_INTERVAL
    IN IF ~(attestation_slot <= time_slots)
       THEN [store |-> s, err |-> "Attestation from future slot"]
       ELSE IF validator_id \notin DOMAIN s.latest_new_votes
               \/ s.latest_new_votes[validator_id].data.slot < attestation_slot
       THEN [store |-> [s EXCEPT !.latest_new_votes =
                            Put(s.latest_new_votes, validator_id, att)],
             err |-> "none"]
       ELSE [store |-> s, err |-> "none"]

\* The Store after the call and the error the call raised ("none" if none).
process_attestation(s, att, is_from_block) ==
    LET e == validate_attestation(s, att)
    IN IF e # "none" THEN [store |-> s, err |-> e]
       ELSE IF is_from_block THEN on_chain_vote(s, att)
       ELSE gossip_vote(s, att)

\* update_head taking latest_justified, like latest_finalized, from the
\* post-state of the new head.
update_head_of_head(s) ==
    LET new_head == get_fork_choice_head(s.blocks, s.latest_justified.root,
                                         s.latest_known_votes, 0)
    IN IF new_head \in DOMAIN s.states
       THEN [s EXCEPT !.head = new_head,
                      !.latest_justified = s.states[new_head].latest_justified,
                      !.latest_finalized = s.states[new_head].latest_finalized]
       ELSE [s EXCEPT !.head = new_head]

update_head(s) ==
    LET s1 == IF DOMAIN s.states # {}
              THEN [s EXCEPT !.latest_justified = get_latest_justified(s.states)]
              ELSE s
        new_head == get_fork_choice_head(s1.blocks, s1.latest_justified.root,
                                         s1.latest_known_votes, 0)
        s2 == [s1 EXCEPT !.head = new_head]
    IN IF new_head \in DOMAIN s2.states
       THEN [s2 EXCEPT !.latest_finalized = s2.states[new_head].latest_finalized]
       ELSE s2

accept_new_votes(s) ==
    LET merged == [v \in DOMAIN s.latest_known_votes \cup DOMAIN s.latest_new_votes |->
                     IF v \in DOMAIN s.latest_new_votes
                     THEN s.latest_new_votes[v] ELSE s.latest_known_votes[v]]
    IN update_head([s EXCEPT !.latest_known_votes = merged,
                             !.latest_new_votes = NoVotes])

CeilDiv(a, b) == (a + b - 1) \div b

\* update_safe_target counting the accepted votes along with the pending ones.
update_safe_target_all_votes(s) ==
    LET min_target_score == CeilDiv(s.config.num_validators * 2, 3)
        all_votes == [v \in DOMAIN s.latest_known_votes \cup DOMAIN s.latest_new_votes |->
                        IF v \in DOMAIN s.latest_new_votes
                        THEN s.latest_new_votes[v] ELSE s.latest_known_votes[v]]
    IN [s EXCEPT !.safe_target =
            get_fork_choice_head(s.blocks, s.latest_justified.root,
                                 all_votes, min_target_score)]

update_safe_target(s) ==
    LET min_target_score == CeilDiv(s.config.num_validators * 2, 3)
    IN [s EXCEPT !.safe_target =
            get_fork_choice_head(s.blocks, s.latest_justified.root,
                                 s.latest_new_votes, min_target_score)]

\* tick_interval accepting the pending votes at interval 0 whether or not a
\* proposal is due.
tick_interval_flush_always(s, has_proposal) ==
    LET s1 == [s EXCEPT !.time = s.time + 1]
        current_interval == s1.time % INTERVALS_PER_SLOT
    IN IF current_interval = 0 THEN accept_new_votes(s1)
       ELSE IF current_interval = 1 THEN s1
       ELSE IF current_interval = 2 THEN update_safe_target(s1)
       ELSE accept_new_votes(s1)

tick_interval(s, has_proposal) ==
    LET s1 == [s EXCEPT !.time = s.time + 1]
        current_interval == s1.time % INTERVALS_PER_SLOT
    IN IF current_interval = 0
       THEN IF has_proposal THEN accept_new_votes(s1) ELSE s1
       ELSE IF current_interval = 1 THEN s1
       ELSE IF current_interval = 2 THEN update_safe_target(s1)
       ELSE accept_new_votes(s1)

\* advance_time ticking once more when time has reached the target.
RECURSIVE advance_time_loop_past(_, _, _)
advance_time_loop_past(s, tick_target, has_proposal) ==
    IF s.time <= tick_target
    THEN advance_time_loop_past(
            tick_interval(s, has_proposal /\ (s.time + 1 = tick_target)),
            tick_target, has_proposal)
    ELSE s

\* advance_time handing has_proposal to every tick, not to the last one only.
RECURSIVE advance_time_loop_signal_all(_, _, _)
advance_time_loop_signal_all(s, tick_target, has_proposal) ==
    IF s.time < tick_target
    THEN advance_time_loop_signal_all(tick_interval(s, has_proposal),
                                      tick_target, has_proposal)
    ELSE s

RECURSIVE advance_time_loop(_, _, _)
advance_time_loop(s, tick_target, has_proposal) ==
    IF s.time < tick_target
    THEN advance_time_loop(
            tick_interval(s, has_proposal /\ (s.time + 1 = tick_target)),
            tick_target, has_proposal)
    ELSE s

advance_time(s, t, has_proposal) ==
    advance_time_loop(s, (t - s.config.genesis_time) \div SECONDS_PER_INTERVAL,
                      has_proposal)

\* get_proposal_head relying on advance_time alone to flush the pending votes.
get_proposal_head_no_flush(s, slot) ==
    LET slot_time == s.config.genesis_time + slot * SECONDS_PER_SLOT
    IN advance_time(s, slot_time, TRUE)

get_proposal_head(s, slot) ==
    LET slot_time == s.config.genesis_time + slot * SECONDS_PER_SLOT
    IN accept_new_votes(advance_time(s, slot_time, TRUE))

\* Slot.is_justifiable_after is supplied from outside the Store: a rule on the
\* distance between a slot and the finalized slot.  A rule is a function from
\* distances to BOOLEAN; every rule holds at distance 0.
Distance(a, b) == IF a >= b THEN a - b ELSE b - a

JustifiableRules ==
    { [d \in 0..(MaxSlot + 1) |-> d \notin X] : X \in SUBSET (1..2) }

is_justifiable_after(slot, finalized_slot, rule) ==
    rule[Distance(slot, finalized_slot)]

\* The three steps of get_vote_target from the head towards safe_target;
\* n counts the steps left.  A lookup of a root that blocks does not hold
\* raises KeyError.
RECURSIVE walk_to_safe_target(_, _, _)
walk_to_safe_target(s, target_block_root, n) ==
    IF n = 0 THEN [ok |-> TRUE, err |-> "none", root |-> target_block_root]
    ELSE IF target_block_root \notin DOMAIN s.blocks
            \/ s.safe_target \notin DOMAIN s.blocks
    THEN [ok |-> FALSE, err |-> "KeyError"]
    ELSE IF s.blocks[target_block_root].slot > s.blocks[s.safe_target].slot
    THEN walk_to_safe_target(s, s.blocks[target_block_root].parent_root, n - 1)
    ELSE walk_to_safe_target(s, target_block_root, n - 1)

\* The while loop of get_vote_target.
RECURSIVE walk_to_justifiable(_, _, _)
walk_to_justifiable(s, target_block_root, rule) ==
    IF target_block_root \notin DOMAIN s.blocks
    THEN [ok |-> FALSE, err |-> "KeyError"]
    ELSE IF ~is_justifiable_after(s.blocks[target_block_root].slot,
                                  s.latest_finalized.slot, rule)
    THEN walk_to_justifiable(s, s.blocks[target_block_root].parent_root, rule)
    ELSE [ok |-> TRUE, err |-> "none", root |-> target_block_root]

get_vote_target(s, rule) ==
    LET w == walk_to_safe_target(s, s.head, 3)
    IN IF ~w.ok THEN w
       ELSE LET j == walk_to_justifiable(s, w.root, rule)
            IN IF ~j.ok THEN j
               ELSE LET target_block == s.blocks[j.root]
                    IN [ok |-> TRUE, err |-> "none",
                        target |-> Checkpoint(hash_block(target_block),
                                              target_block.slot)]

produce_attestation_vote(s, slot, validator_index, rule) ==
    LET head_root == s.head
    IN IF head_root \notin DOMAIN s.blocks THEN [ok |-> FALSE, err |-> "KeyError"]
       ELSE LET head_checkpoint == Checkpoint(head_root, s.blocks[head_root].slot)
                t == get_vote_target(s, rule)
            IN IF ~t.ok THEN t
               ELSE [ok |-> TRUE, err |-> "none",
                     vote |-> ValidatorAttestation(validator_index,
                                  AttestationData(slot, head_checkpoint, t.target,
                                                  s.latest_justified))]

\* The loop of process_block over the attestations of the body: it stops at
\* the first attestation that is rejected.
RECURSIVE replay_attestations(_, _)
replay_attestations(s, atts) ==
    IF atts = <<>> THEN [store |-> s, err |-> "none"]
    ELSE LET r == process_attestation(s, Head(atts), TRUE)
         IN IF r.err # "none" THEN r
            ELSE replay_attestations(r.store, Tail(atts))

\* The proposer's vote naming the block's parent as its head.
ProposerVoteOf_parent(block) ==
    ValidatorAttestation(block.proposer_index,
        AttestationData(block.slot,
            Checkpoint(block.parent_root, block.slot),
            block.body.proposer_attestation.target,
            block.body.proposer_attestation.source))

\* The vote process_block synthesizes for the block's proposer.
ProposerVoteOf(block) ==
    ValidatorAttestation(block.proposer_index,
        AttestationData(block.slot,
            Checkpoint(hash_block(block), block.slot),
            block.body.proposer_attestation.target,
            block.body.proposer_attestation.source))

\* process_block from the state transition on: the parent's state is held.
\* The signed envelope of a block is not modelled: a block stands for its
\* message.
import_with_parent(s, block, fx) ==
    LET block_hash == hash_block(block)
        r == state_transition(s.states[block.parent_root], block, TRUE, fx)
    IN IF ~r.ok THEN [store |-> s, err |-> r.err]
       ELSE LET s1 == [s EXCEPT !.blocks = Put(s.blocks, block_hash, block),
                                !.states = Put(s.states, block_hash, r.state)]
                r2 == replay_attestations(s1, block.body.attestations)
            IN IF r2.err # "none" THEN r2
               ELSE process_attestation(update_head(r2.store),
                                        ProposerVoteOf(block), FALSE)

\* import_block keeping a block whose parent state it does not hold.
import_block_orphan(s, block, fx) ==
    IF block.parent_root \notin DOMAIN s.states
    THEN [store |-> [s EXCEPT !.blocks = Put(s.blocks, hash_block(block), block)],
          err |-> "none"]
    ELSE import_with_parent(s, block, fx)

\* process_block past the check that the block is not yet known.
import_block(s, block, fx) ==
    IF block.parent_root \notin DOMAIN s.states
    THEN [store |-> s, err |-> "Parent state not found"]
    ELSE import_with_parent(s, block, fx)

\* process_block without the check for a known block.
process_block_reimport(s, block, fx) == import_block(s, block, fx)

process_block(s, block, fx) ==
    IF hash_block(block) \in DOMAIN s.blocks
    THEN [store |-> s, err |-> "none"]
    ELSE import_block(s, block, fx)

\* The votes of latest_known_votes in the order produce_block visits them.
RECURSIVE VotesInOrder(_, _)
VotesInOrder(votes, v) ==
    IF v >= NumValidators THEN <<>>
    ELSE (IF v \in DOMAIN votes THEN <<votes[v]>> ELSE <<>>) \o VotesInOrder(votes, v + 1)

InSeq(x, sq) == \E i \in 1..Len(sq) : sq[i] = x

RECURSIVE new_attestations(_, _, _, _)
new_attestations(s, signed, attestations, post_state) ==
    IF signed = <<>> THEN <<>>
    ELSE LET data == Head(signed).data
             candidate_attestation ==
                 ValidatorAttestation(Head(signed).validator_id,
                     AttestationData(data.slot, data.head, data.target,
                                     post_state.latest_justified))
             rest == new_attestations(s, Tail(signed), attestations, post_state)
         IN IF data.target.root \notin DOMAIN s.blocks THEN rest
            ELSE IF InSeq(candidate_attestation, attestations) THEN rest
            ELSE <<candidate_attestation>> \o rest

\* The attestation-collection loop of produce_block; n counts its iterations.
RECURSIVE collect_attestations(_, _, _, _, _, _)
collect_attestations(s, slot, validator_index, head_root, attestations, n) ==
    LET candidate_block == Block(slot, validator_index, head_root, Zero,
                                 BlockBody(attestations, DefaultProposerAttestation))
        r == PostState(s.states[head_root], candidate_block)
    IN IF ~r.ok THEN [ok |-> FALSE, err |-> r.err, iterations |-> n]
       ELSE LET fresh == new_attestations(s, VotesInOrder(s.latest_known_votes, 0),
                                          attestations, r.state)
            IN IF fresh = <<>>
               THEN [ok |-> TRUE, err |-> "none", attestations |-> attestations,
                     iterations |-> n]
               ELSE collect_attestations(s, slot, validator_index, head_root,
                                         attestations \o fresh, n + 1)

\* Keeping the produced block and making it the head at once.
store_produced_as_head(s, block_hash, finalized_block, final_post_state) ==
    [s EXCEPT !.blocks = Put(s.blocks, block_hash, finalized_block),
              !.states = Put(s.states, block_hash, final_post_state),
              !.head = block_hash]

\* The Store after produce_block has kept its block and the block's post-state.
store_produced(s, block_hash, finalized_block, final_post_state) ==
    [s EXCEPT !.blocks = Put(s.blocks, block_hash, finalized_block),
              !.states = Put(s.states, block_hash, final_post_state)]

produce_block(s, slot, validator_index, fx) ==
    IF ~is_proposer(validator_index, slot, s.config.num_validators)
    THEN [store |-> s, err |-> "is not the proposer for slot"]
    ELSE IF s.head \notin DOMAIN s.states
    THEN [store |-> s, err |-> "KeyError"]
    ELSE LET head_root == s.head
             c == collect_attestations(s, slot, validator_index, head_root, <<>>, 1)
         IN IF ~c.ok THEN [store |-> s, err |-> c.err]
            ELSE LET final_block == Block(slot, validator_index, head_root, Zero,
                                          BlockBody(c.attestations, DefaultProposerAttestation))
                     r == PostState(s.states[head_root], final_block)
                 IN IF ~r.ok THEN [store |-> s, err |-> r.err]
                    ELSE LET finalized_block ==
                                 [final_block EXCEPT !.state_root = hash_state(r.state, fx)]
                             block_hash == hash_block(finalized_block)
                         IN [store |-> store_produced(s, block_hash, finalized_block,
                                                      r.state),
                             err |-> "none", block |-> finalized_block]

(* ------------------------- the Store as variables ----------------------- *)

Config == [num_validators |-> NumValidators, genesis_time |-> GenesisTime]

Store ==
    [time |-> time, config |-> Config, head |-> head, safe_target |-> safe_target,
     latest_justified |-> latest_justified, latest_finalized |-> latest_finalized,
     blocks |-> blocks, states |-> states,
     latest_known_votes |-> latest_known_votes,
     latest_new_votes |-> latest_new_votes]

SetStore(s) ==
    /\ time' = s.time
    /\ head' = s.head
    /\ safe_target' = s.safe_target
    /\ latest_justified' = s.latest_justified
    /\ latest_finalized' = s.latest_finalized
    /\ blocks' = s.blocks
    /\ states' = s.states
    /\ latest_known_votes' = s.latest_known_votes
    /\ latest_new_votes' = s.latest_new_votes

SetStoreInit(s) ==
    /\ time = s.time
    /\ head = s.head
    /\ safe_target = s.safe_target
    /\ latest_justified = s.latest_justified
    /\ latest_finalized = s.latest_finalized
    /\ blocks = s.blocks
    /\ states = s.states
    /\ latest_known_votes = s.latest_known_votes
    /\ latest_new_votes = s.latest_new_votes

\* The trusted anchor: the genesis state and its block, the state carrying
\* the header of the block, as the post-state of a block does.
AnchorState ==
    [generate_genesis(GenesisTime, NumValidators)
        EXCEPT !.latest_block_header.state_root = FixRoot(1)]

AnchorBlock ==
    Block(0, 0, Zero, FixRoot(1), BlockBody(<<>>, DefaultProposerAttestation))

AnchorRoot == hash_block(AnchorBlock)

GenesisState == generate_genesis(GenesisTime, NumValidators)

(* ------------------------------ inputs --------------------------------- *)

AnchorCheckpoint == Checkpoint(AnchorRoot, 0)

\* A root no block of the Store ever has.
UnknownRoot ==
    hash_block(Block(0, 1, Zero, Zero, BlockBody(<<>>, DefaultProposerAttestation)))

Vote(v, slot, target, source) ==
    ValidatorAttestation(v, AttestationData(slot, target, target, source))

ProposerVote(target) == [target |-> target, source |-> AnchorCheckpoint]

\* The blocks the network offers.  Each names as state_root the digest of the
\* state that holds its own header, so that state_transition can accept it.
\* A1 <- A2 is a chain on the anchor; B1, U2 and C3 are forks on the anchor.
BlockA1 ==
    Block(1, 1 % NumValidators, AnchorRoot, FixRoot(2),
          BlockBody(<<>>, ProposerVote(AnchorCheckpoint)))

BlockB1 ==
    Block(1, 1 % NumValidators, AnchorRoot, FixRoot(3),
          BlockBody(<<>>, DefaultProposerAttestation))

BlockA2 ==
    Block(2, 2 % NumValidators, hash_block(BlockA1), FixRoot(4),
          BlockBody(<<Vote(0, 1, Checkpoint(hash_block(BlockA1), 1), AnchorCheckpoint)>>,
                    ProposerVote(Checkpoint(hash_block(BlockA1), 1))))

\* Its vote finalizes slot 1 in the State; the Store rejects the vote.
BlockC3 ==
    Block(3, 3 % NumValidators, AnchorRoot, FixRoot(5),
          BlockBody(<<Vote(0, 2, Checkpoint(AnchorRoot, 2), Checkpoint(AnchorRoot, 1))>>,
                    ProposerVote(AnchorCheckpoint)))

\* Its vote justifies, in the State, a checkpoint of a block nobody holds.
BlockU2 ==
    Block(2, 2 % NumValidators, AnchorRoot, FixRoot(6),
          BlockBody(<<Vote(0, 1, Checkpoint(UnknownRoot, 1), AnchorCheckpoint)>>,
                    ProposerVote(AnchorCheckpoint)))

\* Blocks state_transition rejects.
RejectedBlocks ==
    { Block(1, 1 % NumValidators, UnknownRoot, FixRoot(7),
            BlockBody(<<>>, DefaultProposerAttestation)),
      Block(1, 1 % NumValidators, AnchorRoot, Zero,
            BlockBody(<<>>, DefaultProposerAttestation)) }

ForkBlocks == {BlockA1, BlockB1, BlockA2, BlockC3, BlockU2} \cup RejectedBlocks

ChainBlocks == {BlockA1, BlockB1} \cup RejectedBlocks

\* Votes of `voters` for the blocks of `targets` the Store holds, and a vote
\* the Store rejects.
VotesOf(voters, targets) ==
    { Vote(v, b.slot, Checkpoint(hash_block(b), b.slot), AnchorCheckpoint) :
        v \in voters, b \in { t \in targets : hash_block(t) \in DOMAIN blocks } }
    \cup { Vote(0, 1, Checkpoint(AnchorRoot, 1), AnchorCheckpoint) }

VoteInputs == VotesOf({0}, {AnchorBlock, BlockA1, BlockB1})

\* Checkpoints and votes offered to validate_attestation: held and unheld
\* roots, each with the slot of its block and with another slot.
ProbeCheckpoints ==
    { Checkpoint(root, slot) :
        root \in {AnchorRoot, hash_block(BlockA1), UnknownRoot}, slot \in 0..1 }

ProbeVotes ==
    { Vote(0, slot, target, source) :
        slot \in 1..2, target \in ProbeCheckpoints, source \in ProbeCheckpoints }

\* Validator 1 votes for BlockA1 once the Store holds it, and at slot 1 for
\* the anchor, as a validator does that has not seen a block for slot 1.
ForkVotes ==
    VotesOf({1}, {BlockA1}) \cup {Vote(1, 1, AnchorCheckpoint, AnchorCheckpoint)}

\* Wall-clock times handed to advance_time.
ClockTimes == GenesisTime..(GenesisTime + MaxTime * SECONDS_PER_INTERVAL)

(* ------------------------------ actions -------------------------------- *)

StFrame == UNCHANGED st_state

TickInterval(has_proposal) ==
    /\ time < MaxTime
    /\ SetStore(tick_interval(Store, has_proposal))
    /\ UNCHANGED fix
    /\ StFrame

AdvanceTime(t, has_proposal) ==
    /\ SetStore(advance_time(Store, t, has_proposal))
    /\ UNCHANGED fix
    /\ StFrame

ProcessAttestation(att, is_from_block) ==
    LET r == process_attestation(Store, att, is_from_block)
    IN /\ SetStore(r.store)
       /\ UNCHANGED fix
       /\ StFrame

\* The digest table once `block` has been hashed against the Store.
Hashed(block) ==
    IF hash_block(block) \notin DOMAIN blocks /\ block.parent_root \in DOMAIN states
    THEN Resolve(fix, states[block.parent_root], block)
    ELSE fix

ProcessBlock(block) ==
    LET r == process_block(Store, block, Hashed(block))
    IN /\ SetStore(r.store)
       /\ fix' = Hashed(block)
       /\ StFrame

AcceptNewVotes ==
    /\ SetStore(accept_new_votes(Store))
    /\ UNCHANGED fix
    /\ StFrame

UpdateSafeTarget ==
    /\ SetStore(update_safe_target(Store))
    /\ UNCHANGED fix
    /\ StFrame

GetProposalHead(slot) ==
    /\ slot * INTERVALS_PER_SLOT <= MaxTime
    /\ SetStore(get_proposal_head(Store, slot))
    /\ UNCHANGED fix
    /\ StFrame

Produced(blks) == { r \in DOMAIN blks : blks[r].state_root[1] = "state" }

ProduceBlock(slot, validator_index) ==
    LET r == produce_block(Store, slot, validator_index, fix)
    IN /\ Cardinality(Produced(r.store.blocks)) <= MaxProduced
       /\ SetStore(r.store)
       /\ UNCHANGED fix
       /\ StFrame

(* -------------------------- specifications ------------------------------ *)

Init ==
    /\ fix = <<AnchorState>>
    /\ SetStoreInit(get_forkchoice_store(AnchorState, AnchorBlock, <<AnchorState>>).store)
    /\ st_state = GenesisState

\* A node that follows forks: every block of ForkBlocks may arrive, in any
\* order; validator 1 votes by gossip or on chain.
Next ==
    \/ \E has_proposal \in BOOLEAN : TickInterval(has_proposal)
    \/ \E t \in ClockTimes, has_proposal \in BOOLEAN : AdvanceTime(t, has_proposal)
    \/ \E att \in ForkVotes, is_from_block \in BOOLEAN :
          ProcessAttestation(att, is_from_block)
    \/ \E block \in ForkBlocks : ProcessBlock(block)
    \/ AcceptNewVotes
    \/ UpdateSafeTarget
    \/ \E slot \in 0..MaxSlot : GetProposalHead(slot)

Spec == Init /\ [][Next]_vars

\* A node on which votes compete: validator 0 votes for every block held,
\* by gossip and on chain; validator 1 votes as the proposer of a block.
NextVotes ==
    \/ \E has_proposal \in BOOLEAN : TickInterval(has_proposal)
    \/ \E t \in ClockTimes, has_proposal \in BOOLEAN : AdvanceTime(t, has_proposal)
    \/ \E att \in VoteInputs, is_from_block \in BOOLEAN :
          ProcessAttestation(att, is_from_block)
    \/ \E block \in ChainBlocks : ProcessBlock(block)
    \/ AcceptNewVotes
    \/ UpdateSafeTarget
    \/ \E slot \in 0..MaxSlot : GetProposalHead(slot)
    \/ \E slot \in 1..MaxSlot, validator_index \in Validators :
          ProduceBlock(slot, validator_index)

SpecVotes == Init /\ [][NextVotes]_vars

\* A node that sees a fork of two well-formed blocks on the anchor, imports
\* each block once the block's slot has begun, as the fork-choice fixture
\* does, and hears both validators vote by gossip; the clock only ticks.
BlockD2 ==
    Block(2, 2 % NumValidators, AnchorRoot, FixRoot(8),
          BlockBody(<<>>, ProposerVote(AnchorCheckpoint)))

ForkPair == {BlockA1, BlockD2}

MaxForkTime == 14

TickFork ==
    /\ time < MaxForkTime
    /\ SetStore(tick_interval(Store, FALSE))
    /\ UNCHANGED fix
    /\ StFrame

ImportOnTime(block) ==
    /\ time >= block.slot * INTERVALS_PER_SLOT
    /\ ProcessBlock(block)

NextFork ==
    \/ TickFork
    \/ \E block \in ForkPair : ImportOnTime(block)
    \/ \E att \in VotesOf(Validators, ForkPair) : ProcessAttestation(att, FALSE)

SpecFork == Init /\ [][NextFork]_vars

(* ------------------ the transition function on its own ------------------ *)

\* The first digest <<"fix", k>> not yet the root of a state.
NextFix(fx) == CHOOSE k \in 1..(Cardinality(DOMAIN fx) + 1) : k \notin DOMAIN fx

\* Blocks offered to st_state: well-formed ones for every later slot, with
\* every body, and one block for each check of state_transition to fail.
StBlocks ==
    LET parent_root == hash_header(st_state.latest_block_header)
        n == st_state.config.num_validators
        empty == BlockBody(<<>>, DefaultProposerAttestation)
        next == st_state.slot + 1
    IN { Block(slot, slot % n, parent_root, FixRoot(NextFix(fix)),
               BlockBody(atts, DefaultProposerAttestation)) :
           slot \in next..MaxSlot, atts \in SeqsUpTo(SlotVotes, MaxAtts) }
       \cup { Block(st_state.slot, st_state.slot % n, parent_root, FixRoot(NextFix(fix)), empty),
              Block(next, (next + 1) % n, parent_root, FixRoot(NextFix(fix)), empty),
              Block(next, next % n, Zero, FixRoot(NextFix(fix)), empty),
              Block(next, next % n, parent_root, Zero, empty) }

StoreFrame == UNCHANGED store_vars

StateTransition(block, valid_signatures) ==
    LET fx == Resolve(fix, st_state, block)
        r == state_transition(st_state, block, valid_signatures, fx)
    IN /\ st_state' = IF r.ok THEN r.state ELSE st_state
       /\ fix' = IF r.ok THEN fx ELSE fix
       /\ StoreFrame

\* A block from BlockBuilder.build, handed to state_transition as the tests do.
BuildAndTransition(slot, atts) ==
    LET b == BlockBuilder_build(st_state, slot, atts, fix)
    IN /\ b.ok
       /\ LET r == state_transition(st_state, b.block, TRUE, fix)
          IN st_state' = IF r.ok THEN r.state ELSE st_state
       /\ UNCHANGED fix
       /\ StoreFrame

NextST ==
    \/ \E block \in StBlocks, valid_signatures \in BOOLEAN :
          StateTransition(block, valid_signatures)
    \/ \E slot \in 1..MaxSlot, atts \in SeqsUpTo(SlotVotes, MaxAtts) :
          BuildAndTransition(slot, atts)

SpecST == Init /\ [][NextST]_vars

(* ------------------------------- claims -------------------------------- *)

\* C1: when process_block raises, every field of the Store is as it was
\* before the call.
C1_FailedImportLeavesStore ==
    \A block \in ForkBlocks :
        LET r == process_block(Store, block, Hashed(block))
        IN r.err # "none" => r.store = Store

\* C2: process_block of a block whose hash is a key of store.blocks returns
\* without an error and leaves every field of the Store unchanged.
C2_KnownBlockIsNoOp ==
    \A root \in DOMAIN blocks :
        LET r == process_block(Store, blocks[root], fix)
        IN r.err = "none" /\ r.store = Store

\* A chain of two imported blocks, votes pending, and the second block
\* offered again.
C2_Witness ==
    /\ hash_block(BlockA2) \in DOMAIN blocks
    /\ latest_new_votes # NoVotes
    /\ head # AnchorRoot
    /\ process_block(Store, BlockA2, fix).store = Store

\* C3: head is a key of store.blocks, and latest_justified.root is head or is
\* reached from head by following parent_root links.
C3_HeadValid ==
    /\ head \in DOMAIN blocks
    /\ IsAncestorOrSelf(blocks, latest_justified.root, head)

\* C4: latest_finalized.slot never decreases from one Store state to the next.
C4_FinalizedMonotone ==
    [][latest_finalized'.slot >= latest_finalized.slot]_vars

\* C5: latest_justified.slot never decreases from one Store state to the next.
C5_JustifiedMonotone ==
    [][latest_justified'.slot >= latest_justified.slot]_vars

\* latest_justified has advanced and the head sits on a fork whose post-state
\* carries a lower latest_justified.
C5_Witness ==
    /\ latest_justified.slot > 0
    /\ head \in DOMAIN states
    /\ states[head].latest_justified.slot < latest_justified.slot

TickTarget(t) == (t - GenesisTime) \div SECONDS_PER_INTERVAL

\* C6: time never decreases; tick_interval adds exactly 1; advance_time whose
\* tick target is at or below time performs no tick and otherwise stops with
\* time at the tick target; a step that changes time is a step of
\* tick_interval, of advance_time, or of get_proposal_head, which advances
\* time through advance_time.
C6_TimeLaw ==
    /\ [](/\ \A has_proposal \in BOOLEAN :
               tick_interval(Store, has_proposal).time = time + 1
          /\ \A t \in ClockTimes, has_proposal \in BOOLEAN :
               LET s == advance_time(Store, t, has_proposal)
               IN IF TickTarget(t) <= time THEN s = Store ELSE s.time = TickTarget(t))
    /\ [][/\ time' >= time
          /\ time' # time =>
               \/ \E has_proposal \in BOOLEAN : TickInterval(has_proposal)
               \/ \E t \in ClockTimes, has_proposal \in BOOLEAN : AdvanceTime(t, has_proposal)
               \/ \E slot \in 0..MaxSlot : GetProposalHead(slot)]_vars

\* Time has advanced past the first slot with votes still pending: some
\* clock times are behind store.time and some are ahead of it.
C6_Witness ==
    /\ time > INTERVALS_PER_SLOT \div 2
    /\ time < MaxTime
    /\ latest_new_votes # NoVotes
    /\ \E t \in ClockTimes : TickTarget(t) < time

\* C7: a block built by BlockBuilder.build for a slot after S.slot does not
\* make S.state_transition fail with "Invalid block state root".
C7_BuiltBlockAccepted ==
    \A slot \in (st_state.slot + 1)..MaxSlot, atts \in SeqsUpTo(SlotVotes, MaxAtts) :
        LET b == BlockBuilder_build(st_state, slot, atts, fix)
        IN b.ok =>
             state_transition(st_state, b.block, TRUE, fix).err # "Invalid block state root"

\* The store after a gossip vote g and then an on-chain vote c.
GossipThenOnChain(g, c) ==
    LET r1 == process_attestation(Store, g, FALSE)
        r2 == process_attestation(r1.store, c, TRUE)
    IN [accepted |-> r1.err = "none" /\ r2.err = "none",
        pending |-> r1.store.latest_new_votes,
        store |-> r2.store]

\* C8: after an accepted gossip vote of validator v with slot s1 and then an
\* accepted on-chain vote of v with slot s2 >= s1, latest_known_votes[v] is
\* the on-chain vote and v is absent from latest_new_votes.
C8_OnChainVoteSupersedes ==
    \A g \in VoteInputs, c \in VoteInputs :
        LET v == c.validator_id
            r == GossipThenOnChain(g, c)
        IN (g.validator_id = v /\ c.data.slot >= g.data.slot /\ r.accepted) =>
             /\ v \in DOMAIN r.store.latest_known_votes
             /\ r.store.latest_known_votes[v] = c
             /\ v \notin DOMAIN r.store.latest_new_votes

\* The votes the Store holds of validator v are older than slot s2 (known)
\* and not newer than it (pending).
NothingNewer(v, s2) ==
    /\ v \in DOMAIN latest_known_votes => latest_known_votes[v].data.slot < s2
    /\ v \in DOMAIN latest_new_votes => latest_new_votes[v].data.slot <= s2

\* C8, amended: the same, when before the two votes the Store holds no known
\* vote of v with slot >= s2 and no pending vote of v with slot > s2.
C8_OnChainVoteSupersedesOlder ==
    \A g \in VoteInputs, c \in VoteInputs :
        LET v == c.validator_id
            r == GossipThenOnChain(g, c)
        IN (/\ g.validator_id = v
            /\ c.data.slot >= g.data.slot
            /\ r.accepted
            /\ NothingNewer(v, c.data.slot)) =>
             /\ v \in DOMAIN r.store.latest_known_votes
             /\ r.store.latest_known_votes[v] = c
             /\ v \notin DOMAIN r.store.latest_new_votes

\* Validator 0 has an older known vote, its gossip vote becomes pending, and
\* the on-chain vote for another block replaces both; validator 1 has a
\* pending vote of its own.
C8_Witness ==
    \E g \in VoteInputs, c \in VoteInputs :
        LET v == c.validator_id
            r == GossipThenOnChain(g, c)
        IN /\ g.validator_id = v
           /\ c.data.slot >= g.data.slot
           /\ c # g
           /\ r.accepted
           /\ v \in DOMAIN latest_known_votes
           /\ NothingNewer(v, c.data.slot)
           /\ v \in DOMAIN r.pending
           /\ r.pending[v] = g
           /\ r.store.latest_known_votes[v] = c
           /\ v \notin DOMAIN r.store.latest_new_votes
           /\ \E w \in DOMAIN latest_new_votes : w # v

\* C9: process_attestation of a gossip vote changes at most the entry of the
\* vote's validator in latest_new_votes, and update_head computes the same
\* head whatever latest_new_votes holds.
C9_GossipVoteFrame ==
    /\ \A att \in VoteInputs :
         LET r == process_attestation(Store, att, FALSE)
             others == (DOMAIN latest_new_votes \cup DOMAIN r.store.latest_new_votes)
                       \ {att.validator_id}
         IN /\ [r.store EXCEPT !.latest_new_votes = latest_new_votes] = Store
            /\ \A w \in others :
                 /\ w \in DOMAIN latest_new_votes
                 /\ w \in DOMAIN r.store.latest_new_votes
                 /\ r.store.latest_new_votes[w] = latest_new_votes[w]
    /\ update_head(Store).head
         = update_head([Store EXCEPT !.latest_new_votes = NoVotes]).head

\* A gossip vote is accepted and becomes pending next to the pending vote of
\* another validator, and a flush of the pending votes would move the head.
C9_Witness ==
    \E att \in VoteInputs :
        LET r == process_attestation(Store, att, FALSE)
        IN /\ r.err = "none"
           /\ r.store.latest_new_votes # latest_new_votes
           /\ \E w \in DOMAIN latest_new_votes : w # att.validator_id
           /\ accept_new_votes(r.store).head # head

\* C10: every State reached from genesis by successful state_transition calls
\* has latest_finalized.slot <= latest_justified.slot <= slot.
C10_CheckpointOrder ==
    /\ st_state.latest_finalized.slot <= st_state.latest_justified.slot
    /\ st_state.latest_justified.slot <= st_state.slot

\* C11: every root in store.blocks also has an entry in store.states, and
\* store.safe_target is a key of store.blocks.
C11_BlocksHaveStates ==
    /\ DOMAIN blocks \subseteq DOMAIN states
    /\ safe_target \in DOMAIN blocks

\* C12: process_block of a block that is not yet known and whose parent_root
\* has no entry in store.states fails with "Parent state not found" and stores
\* nothing, and every block of store.blocks other than the anchor has its
\* parent in store.blocks.
C12_ParentKnown ==
    /\ \A block \in ForkBlocks :
           (hash_block(block) \notin DOMAIN blocks /\ block.parent_root \notin DOMAIN states)
               => LET r == process_block(Store, block, Hashed(block))
                  IN r.err = "Parent state not found" /\ r.store = Store
    /\ \A root \in DOMAIN blocks :
           root = AnchorRoot \/ blocks[root].parent_root \in DOMAIN blocks

\* A Store holding a block beyond the anchor is offered a block whose parent
\* it does not hold.
C12_Witness ==
    /\ hash_block(BlockA1) \notin DOMAIN blocks
    /\ hash_block(BlockA2) \notin DOMAIN blocks
    /\ Cardinality(DOMAIN blocks) >= 2
    /\ process_block(Store, BlockA2, Hashed(BlockA2)).err = "Parent state not found"

\* C13: when process_attestation raises, with is_from_block true or false,
\* every field of the Store is as it was before the call; validation of the
\* vote changes no field of the Store.
C13_FailedVoteLeavesStore ==
    \A att \in ProbeVotes \cup ForkVotes, is_from_block \in BOOLEAN :
        LET r == process_attestation(Store, att, is_from_block)
        IN /\ r.err # "none" => r.store = Store
           /\ validate_attestation(Store, att) # "none" => r.store = Store

\* A Store with a vote counted and a vote pending is offered a vote that
\* passes validation and is refused by the gossip branch, and a vote that
\* fails validation.
C13_Witness ==
    /\ latest_known_votes # NoVotes
    /\ latest_new_votes # NoVotes
    /\ \E att \in ProbeVotes :
           /\ validate_attestation(Store, att) = "none"
           /\ process_attestation(Store, att, FALSE).err = "Attestation from future slot"
           /\ (0 \notin DOMAIN latest_new_votes
               \/ latest_new_votes[0].data.slot < att.data.slot)
    /\ \E att \in ProbeVotes :
           process_attestation(Store, att, TRUE).err = "Target checkpoint slot mismatch"

\* The pending votes laid over the counted votes.
MergedVotes ==
    [v \in DOMAIN latest_known_votes \cup DOMAIN latest_new_votes |->
        IF v \in DOMAIN latest_new_votes THEN latest_new_votes[v]
        ELSE latest_known_votes[v]]

\* C14: tick_interval(has_proposal) adds 1 to time and then acts on
\* time mod INTERVALS_PER_SLOT: at 0 it flushes the pending votes and
\* recomputes head only if has_proposal and otherwise changes nothing else; at
\* 1 it changes nothing else; at 2 it recomputes safe_target and nothing else;
\* at 3 it flushes the pending votes and recomputes head whatever has_proposal.
C14_TickPhases ==
    \A has_proposal \in BOOLEAN :
        LET r == tick_interval(Store, has_proposal)
            ticked == [Store EXCEPT !.time = time + 1]
            current_interval == (time + 1) % INTERVALS_PER_SLOT
            flushes == current_interval = 3 \/ (current_interval = 0 /\ has_proposal)
        IN /\ r.time = time + 1
           /\ flushes =>
                  /\ r.latest_new_votes = NoVotes
                  /\ r.latest_known_votes = MergedVotes
                  /\ r.head = get_fork_choice_head(blocks, r.latest_justified.root,
                                                   MergedVotes, 0)
                  /\ r.safe_target = safe_target
                  /\ r.blocks = blocks /\ r.states = states
           /\ (current_interval = 1 \/ (current_interval = 0 /\ ~has_proposal)) =>
                  r = ticked
           /\ current_interval = 2 =>
                  /\ r = [ticked EXCEPT !.safe_target = r.safe_target]
                  /\ r.safe_target =
                         get_fork_choice_head(blocks, latest_justified.root,
                             latest_new_votes,
                             CeilDiv(NumValidators * 2, 3))

\* The next tick opens a slot with votes pending: with a proposal it flushes
\* them, without one it leaves them pending.
C14_Witness ==
    /\ (time + 1) % INTERVALS_PER_SLOT = 0
    /\ latest_new_votes # NoVotes
    /\ tick_interval(Store, TRUE).latest_new_votes = NoVotes
    /\ tick_interval(Store, FALSE).latest_new_votes = latest_new_votes
    /\ tick_interval(Store, TRUE).head # head

\* The proposer's vote is pending and not counted in Store s, and the head of
\* s is the fork-choice head over the counted votes of s.
ProposerVotePending(s, block) ==
    LET proposer == block.proposer_index
       vote_head == Checkpoint(hash_block(block), block.slot)
    IN /\ proposer \in DOMAIN s.latest_new_votes
       /\ s.latest_new_votes[proposer].validator_id = proposer
       /\ s.latest_new_votes[proposer].data.slot = block.slot
       /\ s.latest_new_votes[proposer].data.head = vote_head
       /\ (proposer \in DOMAIN s.latest_known_votes
              => s.latest_known_votes[proposer].data.head # vote_head)
       /\ s.head = get_fork_choice_head(s.blocks, s.latest_justified.root,
                                        s.latest_known_votes, 0)

C16_HeadFollowsChain ==
    \A block \in ForkBlocks :
        LET r == process_block(Store, block, Hashed(block))
        IN (/\ latest_known_votes = NoVotes
            /\ hash_block(block) \notin DOMAIN blocks
            /\ block.parent_root = head
            /\ r.err = "none")
               => r.store.head = hash_block(block)

\* C17: get_forkchoice_store(state, anchor_block) fails unless
\* anchor_block.state_root is the hash of state; when it succeeds the new
\* Store has time = anchor_block.slot * INTERVALS_PER_SLOT, head and
\* safe_target the anchor block's root, latest_justified and latest_finalized
\* those of the anchor state, exactly the anchor entry in blocks and in states,
\* and no votes.  Anchors are drawn from the states and blocks a Store holds.
C17_AnchoredStore ==
    \A sr \in DOMAIN states, br \in DOMAIN blocks :
        LET state == states[sr]
            anchor_block == blocks[br]
            g == get_forkchoice_store(state, anchor_block, fix)
        IN /\ anchor_block.state_root # hash_state(state, fix) => ~g.ok
           /\ g.ok =>
                  /\ g.store.time = anchor_block.slot * INTERVALS_PER_SLOT
                  /\ g.store.head = hash_block(anchor_block)
                  /\ g.store.safe_target = hash_block(anchor_block)
                  /\ g.store.latest_justified = state.latest_justified
                  /\ g.store.latest_finalized = state.latest_finalized
                  /\ DOMAIN g.store.blocks = {hash_block(anchor_block)}
                  /\ g.store.blocks[hash_block(anchor_block)] = anchor_block
                  /\ DOMAIN g.store.states = {hash_block(anchor_block)}
                  /\ g.store.states[hash_block(anchor_block)] = state
                  /\ g.store.latest_known_votes = NoVotes
                  /\ g.store.latest_new_votes = NoVotes

\* The Store holds BlockA2 and its post-state: anchoring a Store there
\* succeeds at time 2 * INTERVALS_PER_SLOT with the justified checkpoint of
\* that state, and anchoring BlockA2 on the genesis anchor state fails.
C17_Witness ==
    /\ hash_block(BlockA2) \in DOMAIN states
    /\ LET g == get_forkchoice_store(states[hash_block(BlockA2)], BlockA2, fix)
       IN /\ g.ok
          /\ g.store.time = 2 * INTERVALS_PER_SLOT
          /\ g.store.latest_justified.slot = 1
    /\ ~get_forkchoice_store(states[AnchorRoot], BlockA2, fix).ok

\* C18: validate_attestation fails whenever the source or the target root is
\* not in store.blocks, the source block's slot exceeds the target block's
\* slot, or a checkpoint's slot differs from the slot of its block; a vote
\* that passes all of these and the time check is accepted.
C18_ValidateAttestation ==
    \A att \in ProbeVotes \cup ForkVotes :
        LET data == att.data
            roots_known == data.source.root \in DOMAIN blocks
                           /\ data.target.root \in DOMAIN blocks
            well_formed ==
                /\ roots_known
                /\ blocks[data.source.root].slot <= blocks[data.target.root].slot
                /\ blocks[data.source.root].slot = data.source.slot
                /\ blocks[data.target.root].slot = data.target.slot
            in_time == data.slot <= (time \div SECONDS_PER_INTERVAL) + 1
        IN /\ ~well_formed => validate_attestation(Store, att) # "none"
           /\ (well_formed /\ in_time) => validate_attestation(Store, att) = "none"

\* The Store holds BlockA1 and is offered a vote from the anchor to BlockA1
\* that is accepted, the same vote with a wrong source slot, the reversed
\* vote, and a vote for an unheld root, all in time.
C18_Witness ==
    LET a1 == hash_block(BlockA1)
    IN /\ a1 \in DOMAIN blocks
       /\ time >= 1
       /\ validate_attestation(Store,
              Vote(0, 1, Checkpoint(a1, 1), Checkpoint(AnchorRoot, 0))) = "none"
       /\ validate_attestation(Store,
              Vote(0, 1, Checkpoint(a1, 1), Checkpoint(AnchorRoot, 1)))
              = "Source checkpoint slot mismatch"
       /\ validate_attestation(Store,
              Vote(0, 1, Checkpoint(AnchorRoot, 0), Checkpoint(a1, 1)))
              = "Source slot must not exceed target"
       /\ validate_attestation(Store,
              Vote(0, 1, Checkpoint(UnknownRoot, 1), Checkpoint(AnchorRoot, 0)))
              = "Unknown target block"

\* The slot that store.time, a count of intervals, falls in.
CurrentSlot == time \div INTERVALS_PER_SLOT

\* C19: votes of the future are refused relative to the slot store.time falls
\* in: validate_attestation fails when vote.slot > current slot + 1, and
\* gossip processing fails when vote.slot > current slot.
C19_FutureVotesRefused ==
    \A att \in ProbeVotes \cup ForkVotes :
        /\ att.data.slot > CurrentSlot + 1
               => validate_attestation(Store, att) # "none"
        /\ att.data.slot > CurrentSlot
               => process_attestation(Store, att, FALSE).err # "none"

\* Slot slot is marked justified in state S.
IsJustified(S, slot) == slot < Len(S.justified_slots) /\ S.justified_slots[slot + 1]

\* C20: whenever process_attestations handles a vote whose source,
\* at slot s, is justified and whose target is at slot s + 1, and the target
\* slot is justified once the vote has been handled, the resulting state has
\* latest_finalized.slot >= s.  The vote is handled in a block of any later
\* slot on st_state.
C20_ConsecutiveFinalizes ==
    \A slot \in (st_state.slot + 1)..MaxSlot, vote \in SlotVotes :
        LET pre == process_slots_loop(st_state, slot)
            post == process_attestations(pre, <<vote>>)
            s == vote.data.source.slot
        IN (/\ IsJustified(pre, s)
            /\ vote.data.target.slot = s + 1
            /\ IsJustified(post, s + 1))
               => post.latest_finalized.slot >= s

\* C21: for every validator v, the slot of latest_known_votes[v] never
\* decreases, whatever Store operation is taken (on-chain votes, gossip votes,
\* flushes by accept_new_votes, ticks).
C21_KnownVoteSlotMonotone ==
    [][\A v \in DOMAIN latest_known_votes :
          /\ v \in DOMAIN latest_known_votes'
          /\ latest_known_votes'[v].data.slot >= latest_known_votes[v].data.slot]_vars

\* The greater of two slots.
MaxOf(a, b) == IF a >= b THEN a ELSE b

C23_WrongProposerRefused ==
    \A slot \in 1..MaxSlot, validator_index \in Validators :
        validator_index # slot % NumValidators =>
            LET r == produce_block(Store, slot, validator_index, fix)
            IN r.err = "is not the proposer for slot" /\ r.store = Store

\* A Store with a counted vote, whose head can be built on: the proposer of
\* slot 2 produces a block there and the other validator is refused.
C23_Witness ==
    /\ latest_known_votes # NoVotes
    /\ produce_block(Store, 2, 2 % NumValidators, fix).err = "none"
    /\ produce_block(Store, 2, 2 % NumValidators, fix).store # Store
    /\ produce_block(Store, 2, 3 % NumValidators, fix).err = "is not the proposer for slot"

\* C24: a successful produce_block(slot, i) returns a block of that slot and
\* proposer whose parent_root is the current head, stores the block in blocks
\* and its post-state in states under the block's root, with the hash of that
\* state equal to block.state_root, and leaves store.head unchanged, so that a
\* produce_block that follows at once builds on the same parent.
C24_ProducedBlock ==
    \A slot \in 1..MaxSlot, validator_index \in Validators :
        LET r == produce_block(Store, slot, validator_index, fix)
        IN r.err = "none" =>
              LET root == hash_block(r.block)
              IN /\ r.block.slot = slot
                 /\ r.block.proposer_index = validator_index
                 /\ r.block.parent_root = head
                 /\ root \in DOMAIN r.store.blocks /\ r.store.blocks[root] = r.block
                 /\ root \in DOMAIN r.store.states
                 /\ hash_state(r.store.states[root], fix) = r.block.state_root
                 /\ r.store.head = head
                 /\ \A slot2 \in 1..MaxSlot, validator2 \in Validators :
                        LET r2 == produce_block(r.store, slot2, validator2, fix)
                        IN r2.err = "none" => r2.block.parent_root = r.block.parent_root

\* The head is BlockA1 with a vote counted: the proposer of slot 2 produces a
\* block on it that the Store did not hold, carrying that vote, and the
\* proposer of slot 3 can then produce on the same parent.
C24_Witness ==
    /\ head = hash_block(BlockA1)
    /\ latest_known_votes # NoVotes
    /\ LET r == produce_block(Store, 2, 2 % NumValidators, fix)
       IN /\ r.err = "none"
          /\ hash_block(r.block) \notin DOMAIN blocks
          /\ r.block.body.attestations # <<>>
          /\ produce_block(r.store, 3, 3 % NumValidators, fix).err = "none"

\* C25: in every reachable Store state, with or without pending votes, the
\* head checkpoint of produce_attestation_vote(slot, v) names the block that
\* get_proposal_head(slot), called next, returns, with that block's slot; the
\* vote's source is store.latest_justified, and nothing in the vote but
\* validator_id depends on v.
C25_VoteHeadIsProposalHead ==
    \A slot \in 1..MaxSlot, rule \in JustifiableRules, v \in Validators :
        LET p == produce_attestation_vote(Store, slot, v, rule)
            proposal_head == get_proposal_head(Store, slot).head
        IN p.ok =>
              /\ p.vote.validator_id = v
              /\ p.vote.data.head.root = proposal_head
              /\ proposal_head \in DOMAIN blocks
              /\ p.vote.data.head.slot = blocks[proposal_head].slot
              /\ p.vote.data.source = latest_justified
              /\ \A w \in Validators :
                     produce_attestation_vote(Store, slot, w, rule).vote.data = p.vote.data

\* c is the child of n the descent moves to: its weight reaches min_score, no
\* child of n is heavier, and among the heaviest it has the largest root.
GreedyChild(blks, votes, min_score, n, c) ==
    /\ c \in Children(blks, n)
    /\ Weight(blks, votes, c) >= min_score
    /\ \A d \in Children(blks, n) :
           \/ Weight(blks, votes, d) < Weight(blks, votes, c)
           \/ /\ Weight(blks, votes, d) = Weight(blks, votes, c)
              /\ RootKey(d) <= RootKey(c)

\* h is where the descent from n ends.
RECURSIVE GreedyEnd(_, _, _, _, _)
GreedyEnd(blks, votes, min_score, n, h) ==
    IF \E c \in Children(blks, n) : GreedyChild(blks, votes, min_score, n, c)
    THEN \E c \in Children(blks, n) :
            /\ GreedyChild(blks, votes, min_score, n, c)
            /\ GreedyEnd(blks, votes, min_score, c, h)
    ELSE h = n

\* The vote maps the Store hands to the helper, and the empty one.
HeadVotes == {latest_known_votes, latest_new_votes, NoVotes}

\* C27: for every block root of a reachable Store, every vote map the Store
\* holds and every min_score, get_fork_choice_head returns the block the
\* greedy descent ends at: each step moves to the heaviest child, the largest
\* root among equals, and the descent stops at a leaf or where no child
\* reaches min_score. With no votes and min_score 0 the result is a leaf, and
\* the result is root itself when no child of root reaches min_score.
C27_GreedyDescent ==
    \A root \in DOMAIN blocks, votes \in HeadVotes, min_score \in 0..NumValidators :
        LET h == get_fork_choice_head(blocks, root, votes, min_score)
        IN /\ h \in DOMAIN blocks
           /\ IsAncestorOrSelf(blocks, root, h)
           /\ GreedyEnd(blocks, votes, min_score, root, h)
           /\ \A c \in Children(blocks, h) : Weight(blocks, votes, c) < min_score
           /\ (votes = NoVotes /\ min_score = 0) => Children(blocks, h) = {}
           /\ (\A c \in Children(blocks, root) : Weight(blocks, votes, c) < min_score)
                 => h = root

\* Two children of the anchor tie under the known votes and the larger root
\* wins, and a min_score no child reaches leaves the descent at a root that
\* has children.
C27_Witness ==
    /\ {hash_block(BlockA1), hash_block(BlockB1)} \subseteq DOMAIN blocks
    /\ Weight(blocks, latest_known_votes, hash_block(BlockA1))
          = Weight(blocks, latest_known_votes, hash_block(BlockB1))
    /\ get_fork_choice_head(blocks, AnchorRoot, latest_known_votes, 0) = hash_block(BlockB1)
    /\ latest_new_votes # NoVotes
    /\ get_fork_choice_head(blocks, AnchorRoot, latest_new_votes, NumValidators) = AnchorRoot

\* C28: in every reachable Store state, after update_head latest_justified is
\* the latest_justified checkpoint of some stored state and no stored state
\* has one of a later slot (it is unchanged when no state is stored); head is
\* the fork-choice head from latest_justified.root over latest_known_votes
\* with min_score 0, whatever latest_new_votes holds; and latest_finalized is
\* the latest_finalized of the state stored under head.
C28_UpdateHead ==
    LET r == update_head(Store)
    IN /\ DOMAIN states = {} => r.latest_justified = latest_justified
       /\ DOMAIN states # {} =>
              /\ \E q \in DOMAIN states : r.latest_justified = states[q].latest_justified
              /\ \A p \in DOMAIN states :
                     states[p].latest_justified.slot <= r.latest_justified.slot
       /\ r.head = get_fork_choice_head(blocks, r.latest_justified.root,
                                        latest_known_votes, 0)
       /\ r.head = update_head([Store EXCEPT !.latest_new_votes = NoVotes]).head
       /\ r.head \in DOMAIN states
       /\ r.latest_finalized = states[r.head].latest_finalized

\* The validators whose pending vote has block b or a descendant of b as target.
PendingSupport(b) ==
    { v \in DOMAIN latest_new_votes :
         /\ latest_new_votes[v].data.target.root \in DOMAIN blocks
         /\ IsAncestorOrSelf(blocks, b, latest_new_votes[v].data.target.root) }

\* C29: in every reachable Store state update_safe_target changes nothing but
\* safe_target; the new safe_target is latest_justified.root or a descendant
\* of it; every block on the path below latest_justified.root down to it has
\* pending votes of at least ceil(2 * num_validators / 3) validators for it or
\* its descendants; and the result is the same when latest_known_votes is
\* emptied.
C29_SafeTarget ==
    LET r == update_safe_target(Store)
    IN /\ r = [Store EXCEPT !.safe_target = r.safe_target]
       /\ IsAncestorOrSelf(blocks, latest_justified.root, r.safe_target)
       /\ \A b \in DOMAIN blocks :
              (/\ b # latest_justified.root
               /\ IsAncestorOrSelf(blocks, latest_justified.root, b)
               /\ IsAncestorOrSelf(blocks, b, r.safe_target))
                 => 3 * Cardinality(PendingSupport(b)) >= 2 * NumValidators
       /\ r.safe_target =
             update_safe_target([Store EXCEPT !.latest_known_votes = NoVotes]).safe_target

\* Enough pending votes move the safe target to a stored block below
\* latest_justified.root, in a state where the accepted votes alone support
\* another block.
C29_Witness ==
    LET r == update_safe_target(Store)
    IN /\ r.safe_target \in DOMAIN blocks
       /\ r.safe_target # latest_justified.root
       /\ r.safe_target # safe_target
       /\ latest_known_votes # NoVotes

\* C30: in every reachable Store state whose safe_target is a stored block,
\* and for every justifiability rule that admits the anchor block's slot after
\* latest_finalized.slot (so that the walk towards genesis can end),
\* get_vote_target returns Checkpoint(root, slot) where root is a key of
\* store.blocks that is head or an ancestor of head, slot is the slot of
\* blocks[root] and is justifiable after latest_finalized.slot; and it returns
\* head itself whenever head's slot does not exceed safe_target's slot and is
\* justifiable.
C30_VoteTarget ==
    \A rule \in JustifiableRules :
        LET t == get_vote_target(Store, rule)
        IN (/\ safe_target \in DOMAIN blocks
            /\ is_justifiable_after(blocks[AnchorRoot].slot, latest_finalized.slot, rule))
             => /\ t.ok
                /\ t.target.root \in DOMAIN blocks
                /\ IsAncestorOrSelf(blocks, t.target.root, head)
                /\ t.target.slot = blocks[t.target.root].slot
                /\ is_justifiable_after(t.target.slot, latest_finalized.slot, rule)
                /\ (/\ blocks[head].slot <= blocks[safe_target].slot
                    /\ is_justifiable_after(blocks[head].slot, latest_finalized.slot, rule))
                      => t.target.root = head

\* C31: in every reachable Store state and for every slot, after
\* get_proposal_head(slot) store.time is slot * INTERVALS_PER_SLOT, or the
\* time it was when that was already reached; latest_new_votes is empty and
\* latest_known_votes is the former known votes overridden by the former
\* pending ones; and head, the root returned, is the fork-choice head from
\* latest_justified.root over those merged votes.
C31_ProposalHead ==
    \A slot \in 0..MaxSlot :
        LET r == get_proposal_head(Store, slot)
        IN /\ r.time >= slot * INTERVALS_PER_SLOT
           /\ time >= slot * INTERVALS_PER_SLOT => r.time = time
           /\ time < slot * INTERVALS_PER_SLOT => r.time = slot * INTERVALS_PER_SLOT
           /\ r.latest_new_votes = NoVotes
           /\ r.latest_known_votes = MergedVotes
           /\ r.head = get_fork_choice_head(blocks, r.latest_justified.root,
                                            MergedVotes, 0)

\* Votes are pending that move the head once merged, with the time of one
\* slot already reached and that of another still ahead.
C31_Witness ==
    /\ latest_new_votes # NoVotes
    /\ time >= INTERVALS_PER_SLOT
    /\ get_proposal_head(Store, 1).time = time
    /\ get_proposal_head(Store, 1).head # head
    /\ get_proposal_head(Store, 2).time > time

\* n ticks of one interval each, in order, the last one with has_proposal and
\* every earlier one without.
RECURSIVE TicksInOrder(_, _, _)
TicksInOrder(s, n, has_proposal) ==
    IF n = 0 THEN s
    ELSE IF n = 1 THEN tick_interval(s, has_proposal)
    ELSE TicksInOrder(tick_interval(s, FALSE), n - 1, has_proposal)

\* Wall-clock times up to the end of the slot after the last one the clock
\* reaches: advance_time called with them crosses the opening of a slot.
CrossingTimes ==
    GenesisTime..(GenesisTime + (MaxTime + INTERVALS_PER_SLOT) * SECONDS_PER_INTERVAL)

\* C32: in every reachable Store state, advance_time(t, has_proposal) leaves
\* the Store that one tick_interval per interval between store.time and the
\* tick target leaves, taken in increasing order of time with none skipped,
\* where only the last tick is given has_proposal and every earlier one
\* FALSE; so when the first of several ticks opens a slot, the pending votes
\* are still pending one tick later.
C32_TicksInOrder ==
    \A t \in CrossingTimes, has_proposal \in BOOLEAN :
        LET n == IF TickTarget(t) > time THEN TickTarget(t) - time ELSE 0
            r == advance_time(Store, t, has_proposal)
        IN /\ r = TicksInOrder(Store, n, has_proposal)
           /\ (n = 2 /\ (time + 1) % INTERVALS_PER_SLOT = 0) =>
                  /\ r.latest_new_votes = latest_new_votes
                  /\ r.latest_known_votes = latest_known_votes

\* With votes pending, a call with has_proposal crosses the opening of a slot
\* on the way to a later interval, and a call stopping at that opening would
\* have flushed them.
C32_Witness ==
    /\ latest_new_votes # NoVotes
    /\ (time + 1) % INTERVALS_PER_SLOT = 0
    /\ \E t \in CrossingTimes :
          /\ TickTarget(t) = time + 2
          /\ advance_time(Store, t, TRUE).latest_new_votes = latest_new_votes
    /\ \E t \in CrossingTimes :
          /\ TickTarget(t) = time + 1
          /\ advance_time(Store, t, TRUE).latest_new_votes = NoVotes

\* Every tick that ends at interval 3 leaves no vote pending and every vote
\* that was pending accepted.
FlushAtIntervalThree ==
    \A has_proposal \in BOOLEAN :
        LET r == tick_interval(Store, has_proposal)
        IN (time + 1) % INTERVALS_PER_SLOT = 3 =>
              /\ r.latest_new_votes = NoVotes
              /\ \A v \in DOMAIN latest_new_votes :
                     /\ v \in DOMAIN r.latest_known_votes
                     /\ r.latest_known_votes[v] = latest_new_votes[v]

\* Validator v's pending vote is no longer the pending vote of v after the step.
LeavesPending(v) ==
    v \notin DOMAIN latest_new_votes' \/ latest_new_votes'[v] # latest_new_votes[v]

\* After the step the pending vote of v is the accepted vote of v.
MovedToKnown(v) ==
    /\ v \in DOMAIN latest_known_votes'
    /\ latest_known_votes'[v] = latest_new_votes[v]

\* After the step v has no pending vote and the accepted vote of v is of an
\* equal or greater slot, as an on-chain vote of such a slot leaves it.
DroppedForOnChain(v) ==
    /\ v \notin DOMAIN latest_new_votes'
    /\ v \in DOMAIN latest_known_votes'
    /\ latest_known_votes'[v].data.slot >= latest_new_votes[v].data.slot

C34_ProcessSlots ==
    \A target \in 0..(MaxSlot + 1) :
        LET r == process_slots(st_state, target)
            old == st_state.historical_block_hashes
            gap == target - st_state.slot
        IN IF target <= st_state.slot
           THEN /\ ~r.ok
                /\ \A block \in StBlocks :
                       block.slot <= st_state.slot =>
                          ~state_transition(st_state, block, TRUE,
                                            Resolve(fix, st_state, block)).ok
           ELSE /\ r.ok
                /\ r.state.slot = target
                /\ Len(r.state.historical_block_hashes) = Len(old) + gap
                /\ SubSeq(r.state.historical_block_hashes, 1, Len(old)) = old
                /\ \A i \in (Len(old) + 1)..(Len(old) + gap) :
                       r.state.historical_block_hashes[i]
                          = hash_header(st_state.latest_block_header)
                /\ r.state.latest_block_header = st_state.latest_block_header
                /\ r.state.latest_justified = st_state.latest_justified
                /\ r.state.latest_finalized = st_state.latest_finalized
                /\ r.state.config = st_state.config

\* A state past genesis, holding the header of an accepted block, from which
\* a target two or more slots ahead and a target not ahead are both on offer.
C34_Witness ==
    /\ st_state.slot >= 1
    /\ st_state.slot + 2 <= MaxSlot + 1
    /\ st_state.latest_block_header.slot = st_state.slot
    /\ st_state.historical_block_hashes # <<>>
    /\ process_slots(st_state, st_state.slot + 2).ok
    /\ ~process_slots(st_state, st_state.slot).ok

\* C35: when the State is the genesis state, process_slots to any target
\* slot, with no block in between, yields justified_slots with one bit per
\* elapsed slot (its length is the state's slot and the length of
\* historical_block_hashes) of which only the bit of slot 0 is true.
C35_SlotProcessingJustifiesNothing ==
    st_state = GenesisState =>
        \A target \in 1..(MaxSlot + 1) :
            LET r == process_slots(st_state, target)
            IN /\ r.ok
               /\ Len(r.state.justified_slots) = r.state.slot
               /\ Len(r.state.justified_slots) = Len(r.state.historical_block_hashes)
               /\ \A i \in 1..Len(r.state.justified_slots) :
                      r.state.justified_slots[i] = (i = 1)

\* Blocks offered to process_block_header on state S: the state's slot and
\* the next one, every proposer, the right parent root and wrong ones, a zero
\* state root and another one.
HeaderProbes(S) ==
    { Block(slot, proposer_index, parent_root, state_root,
            BlockBody(<<>>, DefaultProposerAttestation)) :
        slot \in {S.slot, S.slot + 1},
        proposer_index \in Validators,
        parent_root \in {hash_header(S.latest_block_header), Zero, UnknownRoot},
        state_root \in {Zero, FixRoot(NextFix(fix))} }

\* C36: for every State reached by accepted blocks, advanced to a later slot,
\* process_block_header fails with "Block slot mismatch" when block.slot is
\* not the state's slot, else with "Incorrect block proposer" when
\* proposer_index is not slot mod num_validators, whatever parent_root and
\* state_root are, else with "Block parent root mismatch" when parent_root is
\* not the hash of latest_block_header; otherwise it returns the state with
\* latest_block_header replaced by the block's header and nothing else
\* changed.  state_transition reports the wrong proposer likewise.
C36_HeaderChecksInOrder ==
    \A target \in (st_state.slot + 1)..(MaxSlot + 1) :
        LET S == process_slots(st_state, target).state
            n == S.config.num_validators
        IN \A block \in HeaderProbes(S) :
             LET r == process_block_header(S, block)
                 slot_ok == block.slot = S.slot
                 proposer_ok == block.proposer_index = S.slot % n
                 parent_ok == block.parent_root = hash_header(S.latest_block_header)
             IN /\ ~slot_ok => r.err = "Block slot mismatch"
                /\ (slot_ok /\ ~proposer_ok) => r.err = "Incorrect block proposer"
                /\ (slot_ok /\ ~proposer_ok) =>
                       state_transition(st_state, block, TRUE, fix).err
                          = "Incorrect block proposer"
                /\ (slot_ok /\ proposer_ok /\ ~parent_ok) =>
                       r.err = "Block parent root mismatch"
                /\ (slot_ok /\ proposer_ok /\ parent_ok) =>
                       /\ r.ok
                       /\ r.state.latest_block_header = BlockHeaderOf(block)
                       /\ r.state = [S EXCEPT !.latest_block_header =
                                                  r.state.latest_block_header]

\* A state past genesis whose header is that of an accepted block: a block
\* for the next slot with both a wrong proposer and a wrong parent root is
\* refused for its proposer, and the well-formed block is accepted.
C36_Witness ==
    /\ st_state.slot >= 1
    /\ st_state.slot < MaxSlot
    /\ st_state.latest_block_header.slot = st_state.slot
    /\ LET S == process_slots(st_state, st_state.slot + 1).state
           bad == Block(S.slot, (S.slot + 1) % NumValidators, Zero, Zero,
                        BlockBody(<<>>, DefaultProposerAttestation))
           good == Block(S.slot, S.slot % NumValidators,
                         hash_header(S.latest_block_header), Zero,
                         BlockBody(<<>>, DefaultProposerAttestation))
       IN /\ process_block_header(S, bad).err = "Incorrect block proposer"
          /\ process_block_header(S, good).ok

\* Votes offered to process_attestations: every pair of source and target
\* slots, the source before, at and after the target.
AttProbes ==
    { ValidatorAttestation(0,
          AttestationData(t, Checkpoint(Zero, t), Checkpoint(Zero, t),
                          Checkpoint(Zero, s))) :
        s \in 0..(MaxSlot + 1), t \in 0..(MaxSlot + 1) }

\* The vote's source is not before its target, lies beyond the end of
\* justified_slots of S, or is a slot S does not hold as justified.
Ineffective(S, vote) ==
    LET source == vote.data.source
        target == vote.data.target
    IN \/ source.slot >= target.slot
       \/ source.slot >= Len(S.justified_slots)
       \/ ~S.justified_slots[source.slot + 1]

\* C37: for every State reached by accepted blocks, a vote whose source is
\* not before its target, is beyond the end of justified_slots or is not
\* justified leaves justified_slots, latest_justified and latest_finalized as
\* they were when it is handled, alone or after another vote; and
\* process_attestations never changes slot, latest_block_header,
\* historical_block_hashes or config.
C37_IneffectiveVotes ==
    /\ \A bad \in AttProbes :
          /\ Ineffective(st_state, bad) =>
                process_attestations(st_state, <<bad>>) = st_state
          /\ \A v \in SlotVotes :
                LET S1 == process_attestations(st_state, <<v>>)
                IN Ineffective(S1, bad) =>
                      process_attestations(st_state, <<v, bad>>) = S1
    /\ \A atts \in SeqsUpTo(AttProbes, 1) \cup SeqsUpTo(SlotVotes, 2) :
          LET r == process_attestations(st_state, atts)
          IN /\ r.slot = st_state.slot
             /\ r.latest_block_header = st_state.latest_block_header
             /\ r.historical_block_hashes = st_state.historical_block_hashes
             /\ r.config = st_state.config

\* The state holds an unjustified slot inside justified_slots: a vote from it
\* has no effect while a vote from a justified slot to the same target has,
\* and a source beyond the end of the list is on offer.
C37_Witness ==
    \E s \in 1..Len(st_state.justified_slots), t \in 1..(MaxSlot + 1) :
        LET from_unjustified ==
                ValidatorAttestation(0, AttestationData(t, Checkpoint(Zero, t),
                    Checkpoint(Zero, t), Checkpoint(Zero, s - 1)))
            from_justified ==
                ValidatorAttestation(0, AttestationData(t, Checkpoint(Zero, t),
                    Checkpoint(Zero, t), Checkpoint(Zero, 0)))
        IN /\ s - 1 < t
           /\ ~st_state.justified_slots[s]
           /\ st_state.justified_slots[1]
           /\ process_attestations(st_state, <<from_unjustified>>) = st_state
           /\ process_attestations(st_state, <<from_justified>>) # st_state
           /\ Len(st_state.justified_slots) <= MaxSlot

C39_SafeTargetOnHeadBranch ==
    IsAncestorOrSelf(blocks, safe_target, head)

\* The attestation-collection loop of produce_block, started with
\* `attestations` collected, stops within `more` further iterations: a pass
\* finds no new attestation, or the candidate block is refused.
RECURSIVE LoopStopsWithin(_, _, _, _, _, _)
LoopStopsWithin(s, slot, validator_index, head_root, attestations, more) ==
    LET candidate_block == Block(slot, validator_index, head_root, Zero,
                                 BlockBody(attestations, DefaultProposerAttestation))
        r == PostState(s.states[head_root], candidate_block)
    IN IF ~r.ok THEN TRUE
       ELSE LET fresh == new_attestations(s, VotesInOrder(s.latest_known_votes, 0),
                                          attestations, r.state)
            IN IF fresh = <<>> THEN TRUE
               ELSE IF more = 0 THEN FALSE
               ELSE LoopStopsWithin(s, slot, validator_index, head_root,
                                    attestations \o fresh, more - 1)

\* C40: in every reachable Store state whose head has a stored state, and
\* for every slot and its proposer, the attestation-collection loop of
\* produce_block stops after at most two passes more than there are votes in
\* latest_known_votes, and when the slot is after the head state's slot the
\* block is built.
C40_CollectionTerminates ==
    \A slot \in 1..(MaxSlot + 1) :
        head \in DOMAIN states =>
            /\ LoopStopsWithin(Store, slot, slot % NumValidators, head, <<>>,
                               Cardinality(DOMAIN latest_known_votes) + 1)
            /\ slot > states[head].slot =>
                   produce_block(Store, slot, slot % NumValidators, fix).err = "none"

====
